---------------------------- MODULE Spec2Model ----------------------------
(***************************************************************************)
(* Model of play_motion's ApproachPlanner                                  *)
(* (src/play_motion/src/approach_planner.cpp).                             *)
(*                                                                         *)
(* Units.  A C++ double is modelled as an exact rational, or one of the    *)
(* IEEE special values a division by zero produces, in a record            *)
(* [n |-> numerator, d |-> denominator]: d > 0 is a finite value in lowest *)
(* terms, [n |-> 1, d |-> 0] is +Inf, [n |-> -1, d |-> 0] is -Inf and      *)
(* [n |-> 0, d |-> 0] is NaN.  Rounding of finite values is not modelled.  *)
(* Positions are counted in units of 1e-3 rad (the default joint           *)
(* tolerance is one unit).  A time_from_start is an integer number of      *)
(* ticks of 0.5 ms, as the message stores whole nanoseconds: eps_time      *)
(* (1e-3 s) is two ticks and Duration::from_seconds truncates to a whole   *)
(* tick.  Velocities are in position units per tick.                       *)
(***************************************************************************)
EXTENDS Integers, Sequences, FiniteSets, TLC

VARIABLES
    \* ApproachPlanner members, set by the constructor
    joint_tol_, skip_planning_vel_, skip_planning_min_dur_,
    planning_disabled_, no_plan_joints_, planning_data_,
    \* the caller's output buffer (the traj_out reference parameter)
    traj_out,
    \* the call in progress / last call: its arguments, the answers of the
    \* external planner, and what the call produced
    pc, joint_names, current_pos, skip_planning, traj_in, planner,
    traj_out_pre, ret, outcome, approach, plan_calls, combined,
    \* arguments and result of a direct call of a helper
    min_group, max_group, valid_groups

config_vars == <<joint_tol_, skip_planning_vel_, skip_planning_min_dur_,
                 planning_disabled_, no_plan_joints_, planning_data_>>
call_vars == <<pc, joint_names, current_pos, skip_planning, traj_in, planner,
               traj_out_pre, ret, outcome, approach, plan_calls, combined>>
helper_vars == <<min_group, max_group, valid_groups>>
vars == <<config_vars, traj_out, call_vars, helper_vars>>

---------------------------------------------------------------------------
(* Bounds of the model *)

\* largest joint position (in 1e-3 rad) of a request
MaxPos == 2
\* largest time_from_start (in ticks) of a first waypoint
MaxTime == 2
\* most points of an input trajectory
MaxPoints == 2
\* most points of a planned approach
MaxApproach == 2

---------------------------------------------------------------------------
(* double arithmetic *)

R(k) == [n |-> k, d |-> 1]
NaN == [n |-> 0, d |-> 0]
Inf(s) == [n |-> s, d |-> 0]

Sign(k) == IF k > 0 THEN 1 ELSE IF k < 0 THEN -1 ELSE 0
Abs(k) == IF k < 0 THEN -k ELSE k

RECURSIVE GCD(_, _)
GCD(a, b) == IF b = 0 THEN a ELSE GCD(b, a % b)

\* the rational num/den (den # 0) in lowest terms with a positive denominator
Norm(num, den) ==
    LET g == GCD(Abs(num), Abs(den))
        s == Sign(den)
    IN  [n |-> (s * num) \div g, d |-> (s * den) \div g]

IsNaN(x) == x.d = 0 /\ x.n = 0
IsFinite(x) == x.d > 0

RAdd(a, b) ==
    IF IsFinite(a) /\ IsFinite(b) THEN Norm(a.n * b.d + b.n * a.d, a.d * b.d)
    ELSE IF IsNaN(a) \/ IsNaN(b) THEN NaN
    ELSE IF ~IsFinite(a) /\ ~IsFinite(b) THEN (IF a.n = b.n THEN a ELSE NaN)
    ELSE IF ~IsFinite(a) THEN a ELSE b

RNeg(a) == [n |-> -a.n, d |-> a.d]

RSub(a, b) == RAdd(a, RNeg(b))

RMul(a, b) ==
    IF IsFinite(a) /\ IsFinite(b) THEN Norm(a.n * b.n, a.d * b.d)
    ELSE IF IsNaN(a) \/ IsNaN(b) THEN NaN
    ELSE IF Sign(a.n) * Sign(b.n) = 0 THEN NaN
    ELSE Inf(Sign(a.n) * Sign(b.n))

\* a / b; a zero divisor is +0.0 (a time difference that is not negative)
RDiv(a, b) ==
    IF IsNaN(a) \/ IsNaN(b) THEN NaN
    ELSE IF IsFinite(a) /\ IsFinite(b)
         THEN IF b.n # 0 THEN Norm(a.n * b.d, a.d * b.n)
              ELSE IF a.n = 0 THEN NaN ELSE Inf(Sign(a.n))
    ELSE IF ~IsFinite(a) /\ ~IsFinite(b) THEN NaN
    ELSE IF ~IsFinite(a) THEN Inf(a.n * (IF b.n < 0 THEN -1 ELSE 1))
    ELSE R(0)

\* std::abs
RAbs(a) == [n |-> Abs(a.n), d |-> a.d]

\* a > b; every comparison with NaN is false
RGt(a, b) ==
    IF IsNaN(a) \/ IsNaN(b) THEN FALSE
    ELSE IF IsFinite(a) /\ IsFinite(b) THEN a.n * b.d > b.n * a.d
    ELSE IF ~IsFinite(a) /\ ~IsFinite(b) THEN a.n > b.n
    ELSE IF ~IsFinite(a) THEN a.n > 0
    ELSE b.n < 0

\* std::max(a, b) == (a < b) ? b : a
RMax(a, b) == IF RGt(b, a) THEN b ELSE a

\* rclcpp::Duration(msg).seconds(): a tick count as a double
Seconds(t) == R(t)

\* rclcpp::Duration::from_seconds(x) for a finite x >= 0: whole ticks, truncated
FromSeconds(x) == x.n \div x.d

\* eps_time = 1e-3 s, in ticks
EpsTime == 2

\* the constructor's defaults: joint_tol_(1e-3), skip_planning_vel_(0.5),
\* skip_planning_min_dur_(0.0).  0.5 rad/s is 1/4 position unit per tick.
JointTolDefault == R(1)
SkipPlanningVelDefault == [n |-> 1, d |-> 4]
SkipPlanningMinDurDefault == R(0)

---------------------------------------------------------------------------
(* messages *)

\* trajectory_msgs::msg::JointTrajectoryPoint
TrajPoint(pos, vel, acc, t) ==
    [positions |-> pos, velocities |-> vel, accelerations |-> acc,
     time_from_start |-> t]

\* trajectory_msgs::msg::JointTrajectory
JointTrajectory(names, points) == [joint_names |-> names, points |-> points]

EmptyTrajectory == JointTrajectory(<<>>, <<>>)

\* the function f on 1..n as a std::vector of its n elements
Vector(f) == f \o <<>>

\* a vector of n copies of x (std::vector::resize(n, x) of an empty vector)
RECURSIVE Fill(_, _)
Fill(n, x) == IF n = 0 THEN <<>> ELSE Append(Fill(n - 1, x), x)

\* std::find: the 1-based index of the first x in s, 0 for end()
RECURSIVE FindFrom(_, _, _)
FindFrom(s, x, i) ==
    IF i > Len(s) THEN 0
    ELSE IF s[i] = x THEN i
    ELSE FindFrom(s, x, i + 1)

Find(s, x) == FindFrom(s, x, 1)

---------------------------------------------------------------------------
(* ApproachPlanner: helpers *)

\* std::string's operator< on the joint names of the model
NameRank == [j \in {"j1", "j2", "j3"} |-> CASE j = "j1" -> 1 [] j = "j2" -> 2 [] j = "j3" -> 3]

NameLess(a, b) == NameRank[a] < NameRank[b]

\* std::sort of a vector of names
RECURSIVE SortInsert(_, _)
SortInsert(sorted, x) ==
    IF sorted = <<>> THEN <<x>>
    ELSE IF NameLess(x, Head(sorted)) THEN <<x>> \o sorted
    ELSE <<Head(sorted)>> \o SortInsert(Tail(sorted), x)

RECURSIVE SortNames(_)
SortNames(names) ==
    IF names = <<>> THEN <<>>
    ELSE SortInsert(SortNames(Tail(names)), Head(names))

\* std::includes(s1.begin(), s1.end(), s2.begin(), s2.end()) on sorted ranges
RECURSIVE IncludesFrom(_, _, _, _)
IncludesFrom(s1, s2, i1, i2) ==
    IF i2 > Len(s2) THEN TRUE
    ELSE IF i1 > Len(s1) \/ NameLess(s2[i2], s1[i1]) THEN FALSE
    ELSE IF ~NameLess(s1[i1], s2[i2]) THEN IncludesFrom(s1, s2, i1 + 1, i2 + 1)
    ELSE IncludesFrom(s1, s2, i1 + 1, i2)

Includes(s1, s2) == IncludesFrom(s1, s2, 1, 1)

\* a MoveGroupInterface handle: the group's name and getActiveJoints()
MoveGroup(name, active_joints) == [name |-> name, active_joints |-> active_joints]

\* ApproachPlanner::PlanningData::PlanningData
PlanningData(move_group) ==
    [move_group |-> move_group,
     sorted_joint_names |-> SortNames(move_group.active_joints)]

isPlanningJoint(joint_name) == Find(no_plan_joints_, joint_name) = 0

RECURSIVE MaxDisplacement(_, _, _, _)
MaxDisplacement(curr_pos, goal_pos, i, dmax) ==
    IF i > Len(curr_pos) THEN dmax
    ELSE LET d == RAbs(RSub(goal_pos[i], curr_pos[i]))
         IN  MaxDisplacement(curr_pos, goal_pos, i + 1,
                             IF RGt(d, dmax) THEN d ELSE dmax)

noPlanningReachTime(curr_pos, goal_pos) ==
    RMax(RDiv(MaxDisplacement(curr_pos, goal_pos, 1, R(0)), skip_planning_vel_),
         skip_planning_min_dur_)

\* for (auto & point : traj) point.time_from_start += dur
AddDuration(traj, dur) ==
    Vector([i \in 1..Len(traj) |->
        [traj[i] EXCEPT !.time_from_start = traj[i].time_from_start + dur]])

\* ApproachPlanner::needsApproach
needsApproach(curr_pos, goal_pos) ==
    \E i \in 1..Len(curr_pos) :
        RGt(RAbs(RSub(curr_pos[i], goal_pos[i])), joint_tol_)

---------------------------------------------------------------------------
(* ApproachPlanner::getValidMoveGroups *)

RECURSIVE ValidGroupsFrom(_, _, _, _)
ValidGroupsFrom(data, k, min_group_s, max_group_s) ==
    IF k > Len(data) THEN <<>>
    ELSE LET group_s == data[k].sorted_joint_names
             rest == ValidGroupsFrom(data, k + 1, min_group_s, max_group_s)
         IN  IF Includes(group_s, min_group_s) /\ Includes(max_group_s, group_s)
             THEN <<data[k].move_group>> \o rest
             ELSE rest

\* faulty variant: the two groups compared as given, without the sort
getValidMoveGroupsOf_Unsorted(data, min_grp, max_grp) ==
    ValidGroupsFrom(data, 1, min_grp, max_grp)

getValidMoveGroupsOf(data, min_grp, max_grp) ==
    ValidGroupsFrom(data, 1, SortNames(min_grp), SortNames(max_grp))

getValidMoveGroups(min_grp, max_grp) ==
    getValidMoveGroupsOf(planning_data_, min_grp, max_grp)

---------------------------------------------------------------------------
(* ApproachPlanner::planApproach *)

(* The external planner is a black box.  Its answer for one group is a     *)
(* record: rejected, the joint names for which setJointValueTarget returns *)
(* false on that group; success, whether plan() returns SUCCESS; and       *)
(* trajectory, plan.trajectory_.joint_trajectory.                          *)
PlannerAnswer(rejected, success, trajectory) ==
    [rejected |-> rejected, success |-> success, trajectory |-> trajectory]

\* the loop of setJointValueTarget calls: the names passed before it stops
RECURSIVE SetTargets(_, _, _)
SetTargets(names, rejected, i) ==
    IF i > Len(names) THEN [ok |-> TRUE, targets |-> names]
    ELSE IF names[i] \in rejected
         THEN [ok |-> FALSE, targets |-> SubSeq(names, 1, i)]
    ELSE SetTargets(names, rejected, i + 1)

\* faulty variant: a plan with no point is taken as a success
planApproach_AcceptsEmpty(names, joint_values, move_group, traj, answers) ==
    LET answer == answers[move_group.name]
        goal == SetTargets(names, answer.rejected, 1)
    IN  IF ~goal.ok
        THEN [ok |-> FALSE, traj |-> traj, targets |-> goal.targets, planned |-> FALSE]
        ELSE IF ~answer.success
        THEN [ok |-> FALSE, traj |-> traj, targets |-> goal.targets, planned |-> TRUE]
        ELSE [ok |-> TRUE, traj |-> answer.trajectory, targets |-> goal.targets,
              planned |-> TRUE]

planApproach(names, joint_values, move_group, traj, answers) ==
    LET answer == answers[move_group.name]
        goal == SetTargets(names, answer.rejected, 1)
    IN  IF ~goal.ok
        THEN [ok |-> FALSE, traj |-> traj, targets |-> goal.targets, planned |-> FALSE]
        ELSE IF ~answer.success \/ answer.trajectory.points = <<>>
        THEN [ok |-> FALSE, traj |-> traj, targets |-> goal.targets, planned |-> TRUE]
        ELSE [ok |-> TRUE, traj |-> answer.trajectory, targets |-> goal.targets,
              planned |-> TRUE]

---------------------------------------------------------------------------
(* ApproachPlanner::computeApproach *)

\* faulty variant: a joint exactly joint_tol_ away counts as not at its goal
RECURSIVE PlanningJoints_AtTolerance(_, _, _, _, _)
PlanningJoints_AtTolerance(names, curr_pos, goal_pos, i, acc) ==
    IF i > Len(names) THEN acc
    ELSE IF isPlanningJoint(names[i])
    THEN PlanningJoints_AtTolerance(names, curr_pos, goal_pos, i + 1,
           [max_planning_group |-> Append(acc.max_planning_group, names[i]),
            max_planning_values |-> Append(acc.max_planning_values, goal_pos[i]),
            min_planning_group |->
                IF ~RGt(joint_tol_, RAbs(RSub(curr_pos[i], goal_pos[i])))
                THEN Append(acc.min_planning_group, names[i])
                ELSE acc.min_planning_group])
    ELSE PlanningJoints_AtTolerance(names, curr_pos, goal_pos, i + 1, acc)

\* the loop that fills max_planning_group, max_planning_values and
\* min_planning_group
RECURSIVE PlanningJoints(_, _, _, _, _)
PlanningJoints(names, curr_pos, goal_pos, i, acc) ==
    IF i > Len(names) THEN acc
    ELSE IF isPlanningJoint(names[i])
    THEN PlanningJoints(names, curr_pos, goal_pos, i + 1,
           [max_planning_group |-> Append(acc.max_planning_group, names[i]),
            max_planning_values |-> Append(acc.max_planning_values, goal_pos[i]),
            min_planning_group |->
                IF RGt(RAbs(RSub(curr_pos[i], goal_pos[i])), joint_tol_)
                THEN Append(acc.min_planning_group, names[i])
                ELSE acc.min_planning_group])
    ELSE PlanningJoints(names, curr_pos, goal_pos, i + 1, acc)

\* faulty variant: the loop goes on after a success
RECURSIVE CallPlanners_NoBreak(_, _, _, _, _, _, _)
CallPlanners_NoBreak(groups, k, names, joint_values, traj, answers, calls) ==
    IF k > Len(groups)
    THEN [ok |-> traj.points # <<>>, traj |-> traj, calls |-> calls]
    ELSE LET r == planApproach(names, joint_values, groups[k], traj, answers)
             log == Append(calls, [group |-> groups[k].name,
                                   targets |-> r.targets, planned |-> r.planned])
         IN  CallPlanners_NoBreak(groups, k + 1, names, joint_values, r.traj,
                                  answers, log)

\* the loop over valid_move_groups: planApproach on each until one succeeds
RECURSIVE CallPlanners(_, _, _, _, _, _, _)
CallPlanners(groups, k, names, joint_values, traj, answers, calls) ==
    IF k > Len(groups) THEN [ok |-> FALSE, traj |-> traj, calls |-> calls]
    ELSE LET r == planApproach(names, joint_values, groups[k], traj, answers)
             log == Append(calls, [group |-> groups[k].name,
                                   targets |-> r.targets, planned |-> r.planned])
         IN  IF r.ok THEN [ok |-> TRUE, traj |-> r.traj, calls |-> log]
             ELSE CallPlanners(groups, k + 1, names, joint_values, r.traj, answers, log)

computeApproach(names, curr_pos, goal_pos, answers) ==
    LET sets == PlanningJoints(names, curr_pos, goal_pos, 1,
                    [max_planning_group |-> <<>>, max_planning_values |-> <<>>,
                     min_planning_group |-> <<>>])
        valid_move_groups ==
            getValidMoveGroups(sets.min_planning_group, sets.max_planning_group)
        run == CallPlanners(valid_move_groups, 1, sets.max_planning_group,
                            sets.max_planning_values, EmptyTrajectory, answers, <<>>)
    IN  IF sets.min_planning_group = <<>>
        THEN [ok |-> TRUE, traj |-> EmptyTrajectory, calls |-> <<>>,
              valid |-> <<>>, sets |-> sets]
        ELSE IF valid_move_groups = <<>>
        THEN [ok |-> FALSE, traj |-> EmptyTrajectory, calls |-> <<>>,
              valid |-> valid_move_groups, sets |-> sets]
        ELSE [ok |-> run.ok, traj |-> run.traj, calls |-> run.calls,
              valid |-> valid_move_groups, sets |-> sets]

---------------------------------------------------------------------------
(* ApproachPlanner::combineTrajectories *)

\* a joint that is not in the approach plan: linear interpolation
InterpolatedJoint(p_min, p_max, t_max, t) ==
    LET t_min == R(0)
        vel == RDiv(RSub(p_max, p_min), RSub(t_max, t_min))
    IN  [position |-> RAdd(p_min, RMul(vel, t)), velocity |-> vel,
         acceleration |-> R(0)]

\* faulty variant: the values of the plan taken by position, not by name
MergedPoint_ByIndex(names, curr_pos, tin, appr, point_appr) ==
    LET joint_dim == Len(tin[1].positions)
        approach_id(i) == IF i <= Len(appr.joint_names) THEN i ELSE 0
    IN  TrajPoint(
            Vector([i \in 1..joint_dim |->
                IF approach_id(i) # 0 THEN point_appr.positions[approach_id(i)]
                ELSE tin[1].positions[i]]),
            IF point_appr.velocities # <<>>
            THEN Vector([i \in 1..joint_dim |->
                    IF approach_id(i) # 0 THEN point_appr.velocities[approach_id(i)]
                    ELSE R(0)])
            ELSE <<>>,
            IF point_appr.accelerations # <<>>
            THEN Vector([i \in 1..joint_dim |->
                    IF approach_id(i) # 0 THEN point_appr.accelerations[approach_id(i)]
                    ELSE R(0)])
            ELSE <<>>,
            point_appr.time_from_start)

\* the point pushed for one approach point
MergedPoint(names, curr_pos, tin, appr, point_appr) ==
    LET joint_dim == Len(tin[1].positions)
        has_velocities == point_appr.velocities # <<>>
        has_accelerations == point_appr.accelerations # <<>>
        approach_id(i) == Find(appr.joint_names, names[i])
        lerp(i) == InterpolatedJoint(curr_pos[i], tin[1].positions[i],
                       Seconds(appr.points[Len(appr.points)].time_from_start),
                       Seconds(point_appr.time_from_start))
    IN  TrajPoint(
            Vector([i \in 1..joint_dim |->
                IF approach_id(i) # 0 THEN point_appr.positions[approach_id(i)]
                ELSE lerp(i).position]),
            IF has_velocities
            THEN Vector([i \in 1..joint_dim |->
                    IF approach_id(i) # 0 THEN point_appr.velocities[approach_id(i)]
                    ELSE lerp(i).velocity])
            ELSE <<>>,
            IF has_accelerations
            THEN Vector([i \in 1..joint_dim |->
                    IF approach_id(i) # 0 THEN point_appr.accelerations[approach_id(i)]
                    ELSE lerp(i).acceleration])
            ELSE <<>>,
            point_appr.time_from_start)

\* traj_out after the loop over approach.points: one push_back per point
PushApproach(names, curr_pos, tin, appr, out) ==
    out \o Vector([k \in 1..Len(appr.points) |->
                      MergedPoint(names, curr_pos, tin, appr, appr.points[k])])

\* faulty variant: the offset read after the duplicate waypoint was popped
AppendInput_OffsetAfterPop(tin, out) ==
    IF Len(tin) = 1 THEN out
    ELSE LET offset == IF Len(out) > 1 THEN out[Len(out) - 1].time_from_start ELSE 0
         IN  SubSeq(out, 1, Len(out) - 1) \o AddDuration(tin, offset)

\* the tail: pop the duplicate waypoint and append the shifted input
AppendInput(tin, out) ==
    IF Len(tin) = 1 THEN out
    ELSE LET offset == out[Len(out)].time_from_start
         IN  SubSeq(out, 1, Len(out) - 1) \o AddDuration(tin, offset)

\* the value of traj_out when combineTrajectories returns
combineTrajectories(names, curr_pos, tin, appr, out) ==
    AppendInput(tin, PushApproach(names, curr_pos, tin, appr, out))

---------------------------------------------------------------------------
(* ApproachPlanner::prependApproach *)

\* faulty variant: the skip_planning branch copies the input and adds nothing
SkipPlanning_CopyOnly(curr_pos, tin) == tin

\* the skip_planning branch
SkipPlanning(curr_pos, tin) ==
    IF tin[1].time_from_start = 0
    THEN AddDuration(tin, FromSeconds(noPlanningReachTime(curr_pos, tin[1].positions)))
    ELSE tin

\* "Deal with first waypoints specifying zero time from start", case 1
ReachTimeShift(curr_pos, out) ==
    LET reach_time == noPlanningReachTime(curr_pos, out[1].positions)
    IN  IF out[1].time_from_start = 0 /\ RGt(reach_time, R(EpsTime))
        THEN AddDuration(out, FromSeconds(reach_time))
        ELSE out

\* faulty variant: case 2 left out
ForceNonZeroStart_Skipped(out) == out

\* case 2: a first time_from_start that is still zero becomes eps_time
ForceNonZeroStart(out) ==
    IF out[1].time_from_start = 0
    THEN [out EXCEPT ![1].time_from_start = EpsTime]
    ELSE out

PostProcess(curr_pos, out) == ForceNonZeroStart(ReachTimeShift(curr_pos, out))

\* what a call leaves behind: the return value, the caller's buffer, and for
\* the record the path taken, the approach computed, the planApproach calls
\* made and the buffer as combineTrajectories left it
Result(r, out, path, appr, calls, comb) ==
    [ret |-> r, traj_out |-> out, outcome |-> path, approach |-> appr,
     plan_calls |-> calls, combined |-> comb]

\* faulty variant: traj_out = traj_in assigned before the approach is computed
FailedApproach_CopiesInput(tin, out, a) ==
    Result(FALSE, tin, IF a.valid = <<>> THEN "no_group" ELSE "planning_failed",
           a.traj, a.calls, <<>>)

\* "if (!approach_ok) {return false;}": the buffer is left as it was
FailedApproach(tin, out, a) ==
    Result(FALSE, out, IF a.valid = <<>> THEN "no_group" ELSE "planning_failed",
           a.traj, a.calls, <<>>)

\* the planning branch, a being what computeApproach returned
PlannedWith(names, curr_pos, tin, out, a) ==
    IF ~a.ok THEN FailedApproach(tin, out, a)
    ELSE IF a.traj.points = <<>>
    THEN Result(TRUE, PostProcess(curr_pos, tin), "no_approach", a.traj,
                a.calls, <<>>)
    ELSE LET comb == combineTrajectories(names, curr_pos, tin, a.traj, out)
         IN  Result(TRUE, PostProcess(curr_pos, comb), "merged", a.traj,
                    a.calls, comb)

\* computeApproach is called once, and the branch taken on what it returned
Planned(names, curr_pos, tin, out, answers) ==
    CHOOSE r \in {PlannedWith(names, curr_pos, tin, out, a) :
                    a \in {computeApproach(names, curr_pos, tin[1].positions, answers)}} :
        TRUE

\* faulty variant: an empty input returns without assigning traj_out
EmptyInput_KeepsBuffer(tin, out) ==
    Result(TRUE, out, "empty_input", EmptyTrajectory, <<>>, <<>>)

\* "Empty trajectory. Nothing to do"
EmptyInput(tin, out) ==
    Result(TRUE, tin, "empty_input", EmptyTrajectory, <<>>, <<>>)

\* faulty variant: a disabled planner rejects skip_planning requests too
prependApproach_DisabledRejectsAll(names, curr_pos, skip, tin, out, answers) ==
    IF tin = <<>> THEN EmptyInput(tin, out)
    ELSE IF Len(tin[1].positions) # Len(names)
              \/ Len(tin[1].positions) # Len(curr_pos)
    THEN Result(FALSE, out, "size_mismatch", EmptyTrajectory, <<>>, <<>>)
    ELSE IF planning_disabled_
    THEN Result(FALSE, out, "planning_disabled", EmptyTrajectory, <<>>, <<>>)
    ELSE IF skip
    THEN Result(TRUE, PostProcess(curr_pos, SkipPlanning(curr_pos, tin)),
                "skip_planning", EmptyTrajectory, <<>>, <<>>)
    ELSE Planned(names, curr_pos, tin, out, answers)

prependApproach(names, curr_pos, skip, tin, out, answers) ==
    IF tin = <<>> THEN EmptyInput(tin, out)
    ELSE IF Len(tin[1].positions) # Len(names)
              \/ Len(tin[1].positions) # Len(curr_pos)
    THEN Result(FALSE, out, "size_mismatch", EmptyTrajectory, <<>>, <<>>)
    ELSE IF ~skip /\ planning_disabled_
    THEN Result(FALSE, out, "planning_disabled", EmptyTrajectory, <<>>, <<>>)
    ELSE IF skip
    THEN Result(TRUE, PostProcess(curr_pos, SkipPlanning(curr_pos, tin)),
                "skip_planning", EmptyTrajectory, <<>>, <<>>)
    ELSE Planned(names, curr_pos, tin, out, answers)

---------------------------------------------------------------------------
(* Configuration and requests of the model *)

\* approach_planner.planning_groups: the groups and their active joints
PlanningGroups == <<MoveGroup("g1", <<"j1">>), MoveGroup("g2", <<"j1", "j2">>)>>

\* the values the parameters of the constructor take in the model
SkipPlanningVels == {SkipPlanningVelDefault, R(1)}
SkipPlanningMinDurs == {SkipPlanningMinDurDefault, R(3)}
NoPlanJoints == {<<>>, <<"j2">>}

\* ApproachPlanner::ApproachPlanner: with disable_motion_planning set, the
\* constructor returns before it reads the planning-related parameters
ConstructorWith(groups, disabled, vel, min_dur, no_plan) ==
    /\ joint_tol_ = JointTolDefault
    /\ skip_planning_vel_ = vel
    /\ skip_planning_min_dur_ = min_dur
    /\ planning_disabled_ = disabled
    /\ no_plan_joints_ = IF disabled THEN <<>> ELSE no_plan
    /\ planning_data_ =
          IF disabled THEN <<>>
          ELSE Vector([k \in 1..Len(groups) |-> PlanningData(groups[k])])

Constructor(disabled, vel, min_dur, no_plan) ==
    ConstructorWith(PlanningGroups, disabled, vel, min_dur, no_plan)

\* joint_names of a request
JointNameChoices == {<<"j2", "j1">>, <<"j2">>}

\* position vectors of one or two joints
PosVectors ==
    UNION {{Vector(f) : f \in [1..dim -> {R(v) : v \in 0..MaxPos}]} : dim \in 1..2}

\* current_pos of a request
CurrentChoices == {<<R(0)>>, <<R(0), R(0)>>, <<R(MaxPos), R(0)>>}

\* the k-th input point: its velocities carry k, so that a point is told from
\* its neighbours
InputPoint(pos, k, t) == TrajPoint(pos, Fill(Len(pos), R(k)), <<>>, t)

\* an input trajectory: the first point at pos and t0, the later points step
\* ticks apart, at pos too or (tail "short") with no positions at all
InputTrajectory(len, pos, t0, step, tail) ==
    Vector([k \in 1..len |->
        InputPoint(IF k = 1 \/ tail = "same" THEN pos ELSE <<>>, k, t0 + (k - 1) * step)])

\* the gap between consecutive input points, in ticks: none, less than
\* eps_time, more than eps_time
TimeSteps == {0, EpsTime - 1, EpsTime + 1}

InputTrajectories(tails) ==
    {InputTrajectory(len, pos, t0, step, tail) :
        len \in 1..MaxPoints, pos \in PosVectors, t0 \in 0..MaxTime,
        step \in TimeSteps, tail \in tails}

\* what the caller's buffer holds when the call is made: nothing, or a point
\* left from an earlier use
StalePoint == TrajPoint(<<R(MaxPos), R(MaxPos)>>, <<>>, <<>>, 0)
PriorBuffers == {<<>>, <<StalePoint>>}

\* the time profile of a planned trajectory: len points from t0, one tick
\* apart, the planned joints all at position 0, with zero velocities
ApproachShapes ==
    {[len |-> len, t0 |-> t0] : len \in 1..MaxApproach, t0 \in {0, 1}}

ShapedTrajectory(move_group, shape) ==
    JointTrajectory(move_group.active_joints,
        Vector([k \in 1..shape.len |->
            TrajPoint(Fill(Len(move_group.active_joints), R(0)),
                      Fill(Len(move_group.active_joints), R(0)), <<>>,
                      shape.t0 + (k - 1))]))

\* rejected: no target is accepted; failure: plan() does not succeed; empty:
\* plan() succeeds with no point; success: plan() succeeds with points;
\* foreign: as success, but a target for a joint that is not an active joint
\* of the group is not accepted
AnswerKinds == {"rejected", "failure", "empty", "success"}
ApproachAnswerKinds == AnswerKinds \cup {"foreign"}

AnswerOf(kind, move_group, shape) ==
    CASE kind = "rejected" ->
            PlannerAnswer({"j1", "j2", "j3"}, FALSE, EmptyTrajectory)
      [] kind = "failure" -> PlannerAnswer({}, FALSE, EmptyTrajectory)
      [] kind = "empty" ->
            PlannerAnswer({}, TRUE, JointTrajectory(move_group.active_joints, <<>>))
      [] kind = "success" ->
            PlannerAnswer({}, TRUE, ShapedTrajectory(move_group, shape))
      [] kind = "foreign" ->
            PlannerAnswer({"j1", "j2", "j3"}
                            \ {move_group.active_joints[a] :
                                  a \in 1..Len(move_group.active_joints)},
                          TRUE, ShapedTrajectory(move_group, shape))

\* the answers of the planners of the groups, one per group name
RECURSIVE PlannerAnswersFrom(_, _, _, _)
PlannerAnswersFrom(groups, kinds, shape, k) ==
    IF k > Len(groups) THEN <<>>
    ELSE (groups[k].name :> AnswerOf(kinds[groups[k].name], groups[k], shape))
         @@ PlannerAnswersFrom(groups, kinds, shape, k + 1)

PlannerAnswers(groups, kinds, shape) == PlannerAnswersFrom(groups, kinds, shape, 1)

\* every way the planners of the configured groups may answer
AllAnswers ==
    {PlannerAnswers(PlanningGroups, kinds, shape) :
        kinds \in [{"g1", "g2"} -> AnswerKinds], shape \in ApproachShapes}

\* planners that find no plan
NoPlans ==
    PlannerAnswers(PlanningGroups, [g \in {"g1", "g2"} |-> "failure"],
                   [len |-> 1, t0 |-> 0])

\* the answers that were asked for, by group name
RECURSIVE ConsultedFrom(_, _, _)
ConsultedFrom(answers, calls, k) ==
    IF k > Len(calls) THEN <<>>
    ELSE (calls[k].group :> answers[calls[k].group])
         @@ ConsultedFrom(answers, calls, k + 1)

Consulted(answers, calls) == ConsultedFrom(answers, calls, 1)

Request(names, curr_pos, skip, tin, answers) ==
    [joint_names |-> names, current_pos |-> curr_pos, skip_planning |-> skip,
     traj_in |-> tin, answers |-> answers]

WellFormed(names, curr_pos, tin) ==
    /\ tin # <<>>
    /\ Len(names) = Len(curr_pos)
    /\ \A k \in 1..Len(tin) : Len(tin[k].positions) = Len(names)

\* the answers a request may meet: with no group registered no planner is
\* there to answer
AnswersFor(data) == IF data = <<>> THEN {NoPlans} ELSE AllAnswers

---------------------------------------------------------------------------
(* The caller and its calls of prependApproach *)

NoCall ==
    /\ pc = "idle"
    /\ joint_names = <<>>
    /\ current_pos = <<>>
    /\ skip_planning = FALSE
    /\ traj_in = <<>>
    /\ planner = <<>>
    /\ traj_out_pre = <<>>
    /\ ret = FALSE
    /\ outcome = "none"
    /\ approach = EmptyTrajectory
    /\ plan_calls = <<>>
    /\ combined = <<>>

NoHelperCall ==
    /\ min_group = <<>>
    /\ max_group = <<>>
    /\ valid_groups = <<>>

Init ==
    /\ \E disabled \in BOOLEAN, vel \in SkipPlanningVels,
          min_dur \in SkipPlanningMinDurs, no_plan \in NoPlanJoints :
          Constructor(disabled, vel, min_dur, no_plan)
    /\ traj_out \in PriorBuffers
    /\ NoCall
    /\ NoHelperCall

\* one call of prependApproach, from entry to return
Call(req) ==
    \E r \in {prependApproach(req.joint_names, req.current_pos,
                               req.skip_planning, req.traj_in, traj_out,
                               req.answers)} :
        /\ joint_names' = req.joint_names
        /\ current_pos' = req.current_pos
        /\ skip_planning' = req.skip_planning
        /\ traj_in' = req.traj_in
        /\ planner' = Consulted(req.answers, r.plan_calls)
        /\ traj_out_pre' = traj_out
        /\ traj_out' = r.traj_out
        /\ ret' = r.ret
        /\ outcome' = r.outcome
        /\ approach' = r.approach
        /\ plan_calls' = r.plan_calls
        /\ combined' = r.combined
        /\ pc' = "returned"
        /\ UNCHANGED <<config_vars, helper_vars>>

\* a request that asks for a plan and is well formed, with every answer the
\* planners may give
CallWithPlanning ==
    /\ pc = "idle"
    /\ \E names \in JointNameChoices, curr_pos \in CurrentChoices,
          tin \in InputTrajectories({"same"}) :
          /\ WellFormed(names, curr_pos, tin)
          /\ \E answers \in AnswersFor(planning_data_) :
                Call(Request(names, curr_pos, FALSE, tin, answers))

\* every other request: skip_planning, an empty trajectory, or sizes that
\* disagree (in the first point or in a later one)
CallOther ==
    /\ pc = "idle"
    /\ \E names \in JointNameChoices, curr_pos \in CurrentChoices,
          skip \in BOOLEAN, tin \in {<<>>} \cup InputTrajectories({"same", "short"}) :
          /\ skip \/ ~WellFormed(names, curr_pos, tin)
          /\ Call(Request(names, curr_pos, skip, tin, NoPlans))

\* the caller takes the result and gets a buffer ready for its next call
CallerPrepares ==
    /\ pc = "returned"
    /\ traj_out' \in PriorBuffers
    /\ pc' = "idle"
    /\ joint_names' = <<>>
    /\ current_pos' = <<>>
    /\ skip_planning' = FALSE
    /\ traj_in' = <<>>
    /\ planner' = <<>>
    /\ traj_out_pre' = <<>>
    /\ ret' = FALSE
    /\ outcome' = "none"
    /\ approach' = EmptyTrajectory
    /\ plan_calls' = <<>>
    /\ combined' = <<>>
    /\ UNCHANGED <<config_vars, helper_vars>>

Next == CallWithPlanning \/ CallOther \/ CallerPrepares

Spec == Init /\ [][Next]_vars

---------------------------------------------------------------------------
(* getValidMoveGroups on its own, over a registry of four groups *)

JointNames == {"j1", "j2", "j3"}

\* registries of the groups {j1,j2}, {j2,j3}, {j1,j2,j3} and {j1,j3}: two
\* configuration orders, active joints listed in and out of name order
GroupRegistries ==
    {<<MoveGroup("a", <<"j1", "j2">>), MoveGroup("b", <<"j2", "j3">>),
       MoveGroup("c", <<"j1", "j2", "j3">>), MoveGroup("d", <<"j1", "j3">>)>>,
     <<MoveGroup("a", <<"j2", "j1">>), MoveGroup("b", <<"j3", "j2">>),
       MoveGroup("c", <<"j3", "j1", "j2">>), MoveGroup("d", <<"j3", "j1">>)>>,
     <<MoveGroup("d", <<"j1", "j3">>), MoveGroup("c", <<"j2", "j3", "j1">>),
       MoveGroup("b", <<"j2", "j3">>), MoveGroup("a", <<"j1", "j2">>)>>}

\* the sequences of distinct joint names
NameSequences ==
    {q \in UNION {[1..n -> JointNames] : n \in 0..3} :
        \A i, j \in 1..Len(q) : i # j => q[i] # q[j]}

InitGroups ==
    /\ \E groups \in GroupRegistries :
          ConstructorWith(groups, FALSE, SkipPlanningVelDefault,
                          SkipPlanningMinDurDefault, <<>>)
    /\ traj_out = <<>>
    /\ NoCall
    /\ NoHelperCall

\* one call of getValidMoveGroups
CallGetValidMoveGroups ==
    /\ pc = "idle"
    /\ \E min_grp \in NameSequences, max_grp \in NameSequences :
          /\ min_group' = min_grp
          /\ max_group' = max_grp
          /\ valid_groups' = getValidMoveGroups(min_grp, max_grp)
    /\ pc' = "groups"
    /\ UNCHANGED <<config_vars, traj_out, joint_names, current_pos, skip_planning,
                   traj_in, planner, traj_out_pre, ret, outcome, approach,
                   plan_calls, combined>>

\* the caller takes the result of the helper
HelperReturns ==
    /\ pc \in {"groups", "approach"}
    /\ pc' = "idle"
    /\ joint_names' = <<>>
    /\ current_pos' = <<>>
    /\ traj_in' = <<>>
    /\ planner' = <<>>
    /\ ret' = FALSE
    /\ approach' = EmptyTrajectory
    /\ plan_calls' = <<>>
    /\ min_group' = <<>>
    /\ max_group' = <<>>
    /\ valid_groups' = <<>>
    /\ UNCHANGED <<config_vars, traj_out, skip_planning, traj_out_pre, outcome,
                   combined>>

NextGroups == CallGetValidMoveGroups \/ HelperReturns

SpecGroups == InitGroups /\ [][NextGroups]_vars

---------------------------------------------------------------------------
(* computeApproach on its own, over the same registries *)

\* every way the planners of the four groups may answer
ApproachAnswers(groups) ==
    {PlannerAnswers(groups, kinds, shape) :
        kinds \in [{"a", "b", "c", "d"} -> ApproachAnswerKinds],
        shape \in {[len |-> MaxApproach, t0 |-> 0]}}

ApproachJointNames == {<<"j1", "j2", "j3">>, <<"j3", "j1", "j2">>}

\* each joint either at the goal or MaxPos away from it
ApproachCurrents == [1..3 -> {R(0), R(MaxPos)}]

InitApproach ==
    /\ \E groups \in GroupRegistries, no_plan \in {<<>>, <<"j3">>} :
          ConstructorWith(groups, FALSE, SkipPlanningVelDefault,
                          SkipPlanningMinDurDefault, no_plan)
    /\ traj_out = <<>>
    /\ NoCall
    /\ NoHelperCall

\* one call of computeApproach, from entry to return
CallComputeApproach ==
    /\ pc = "idle"
    /\ \E names \in ApproachJointNames, curr_pos \in ApproachCurrents,
          answers \in ApproachAnswers(
              [k \in 1..Len(planning_data_) |-> planning_data_[k].move_group]) :
          \E r \in {computeApproach(names, curr_pos, Fill(3, R(0)), answers)} :
              /\ joint_names' = names
              /\ current_pos' = curr_pos
              /\ traj_in' = <<TrajPoint(Fill(3, R(0)), <<>>, <<>>, 0)>>
              /\ planner' = answers
              /\ ret' = r.ok
              /\ approach' = r.traj
              /\ plan_calls' = r.calls
              /\ min_group' = r.sets.min_planning_group
              /\ max_group' = r.sets.max_planning_group
              /\ valid_groups' = r.valid
    /\ pc' = "approach"
    /\ UNCHANGED <<config_vars, traj_out, skip_planning, traj_out_pre, outcome,
                   combined>>

NextApproach == CallComputeApproach \/ HelperReturns

SpecApproach == InitApproach /\ [][NextApproach]_vars

---------------------------------------------------------------------------
(* combineTrajectories on its own *)

\* joint_names of the motion, and the joint_names of the planned approach:
\* one joint or both, in either order
CombineJointNames == {<<"j2", "j1">>, <<"j1", "j2">>}
PlanJointNames == {<<"j1">>, <<"j2">>, <<"j1", "j2">>, <<"j2", "j1">>}

CombineCurrents == {Vector(f) : f \in [1..2 -> {R(0), R(MaxPos)}]}
CombineTargets == {Vector(f) : f \in [1..2 -> {R(v) : v \in 0..MaxPos}]}

\* the time profile of the approach: len points from t0, step apart
PlanProfiles ==
    {[len |-> len, t0 |-> t0, step |-> step] :
        len \in 1..MaxApproach, t0 \in {0, 2}, step \in {0, 2}}

\* the k-th point of a plan: every value tells its joint, its point and its
\* kind (position, velocity, acceleration) from every other
PlanPoint(plan_joints, k, t, has_velocities, has_accelerations) ==
    TrajPoint(
        Vector([a \in 1..Len(plan_joints) |-> R(10 * k + NameRank[plan_joints[a]])]),
        IF has_velocities
        THEN Vector([a \in 1..Len(plan_joints) |->
                        R(100 + 10 * k + NameRank[plan_joints[a]])])
        ELSE <<>>,
        IF has_accelerations
        THEN Vector([a \in 1..Len(plan_joints) |->
                        R(200 + 10 * k + NameRank[plan_joints[a]])])
        ELSE <<>>,
        t)

PlannedApproach(plan_joints, profile, has_velocities, has_accelerations) ==
    JointTrajectory(plan_joints,
        Vector([k \in 1..profile.len |->
            PlanPoint(plan_joints, k, profile.t0 + (k - 1) * profile.step,
                      has_velocities, has_accelerations)]))

PlannedApproaches ==
    {PlannedApproach(plan_joints, profile, has_velocities, has_accelerations) :
        plan_joints \in PlanJointNames, profile \in PlanProfiles,
        has_velocities \in BOOLEAN, has_accelerations \in BOOLEAN}

InitCombine ==
    /\ Constructor(FALSE, SkipPlanningVelDefault, SkipPlanningMinDurDefault, <<>>)
    /\ traj_out \in PriorBuffers
    /\ NoCall
    /\ NoHelperCall

\* one call of combineTrajectories, from entry to return
CallCombineTrajectories ==
    /\ pc = "idle"
    /\ \E names \in CombineJointNames, curr_pos \in CombineCurrents,
          goal_pos \in CombineTargets, len \in 1..MaxPoints,
          appr \in PlannedApproaches :
          \E tin \in {InputTrajectory(len, goal_pos, 0, 1, "same")} :
              /\ joint_names' = names
              /\ current_pos' = curr_pos
              /\ traj_in' = tin
              /\ approach' = appr
              /\ traj_out' = combineTrajectories(names, curr_pos, tin, appr, traj_out)
    /\ traj_out_pre' = traj_out
    /\ pc' = "combined"
    /\ UNCHANGED <<config_vars, helper_vars, skip_planning, planner, ret, outcome,
                   plan_calls, combined>>

\* the caller takes the trajectory and gets a buffer ready for its next call
CombineReturns ==
    /\ pc = "combined"
    /\ traj_out' \in PriorBuffers
    /\ pc' = "idle"
    /\ joint_names' = <<>>
    /\ current_pos' = <<>>
    /\ traj_in' = <<>>
    /\ approach' = EmptyTrajectory
    /\ traj_out_pre' = <<>>
    /\ UNCHANGED <<config_vars, helper_vars, skip_planning, planner, ret, outcome,
                   plan_calls, combined>>

NextCombine == CallCombineTrajectories \/ CombineReturns

SpecCombine == InitCombine /\ [][NextCombine]_vars

---------------------------------------------------------------------------
(* Properties of prependApproach, checked under Spec *)

Returned == pc = "returned"

NonDecreasing(points) ==
    \A k \in 1..(Len(points) - 1) :
        points[k].time_from_start <= points[k + 1].time_from_start

\* the sizes the precondition checks compare: joint_names, current_pos and
\* the first input point
SizesAgree ==
    /\ Len(traj_in[1].positions) = Len(joint_names)
    /\ Len(traj_in[1].positions) = Len(current_pos)

\* C1: a call that succeeds on a non-empty input trajectory, on the
\* skip_planning branch or on the planning branch (no approach needed, or
\* approach merged), leaves a first output point whose time_from_start is
\* strictly greater than zero.
C1_NonZeroStart ==
    (Returned /\ ret /\ traj_in # <<>>) => traj_out[1].time_from_start > 0

\* C1 witness: a merged approach that starts at time zero at the current
\* position, so that the first offset had to be forced to eps_time
C1_Witness ==
    /\ Returned /\ ret /\ outcome = "merged"
    /\ traj_out_pre = <<>>
    /\ combined[1].time_from_start = 0
    /\ traj_out[1].time_from_start = EpsTime

\* C2 (the claim as stated): after a successful call whose input offsets are
\* non-decreasing, and whose planned approach (if any) has non-decreasing
\* offsets, the output offsets are non-decreasing.  Stated for a caller
\* whose buffer was empty.
C2_MonotonicTiming ==
    (Returned /\ ret /\ traj_out_pre = <<>>
        /\ NonDecreasing(traj_in) /\ NonDecreasing(approach.points))
    => NonDecreasing(traj_out)

\* C3: a call that returns failure leaves the caller's output trajectory
\* exactly as it was before the call.
C3_FailureLeavesOutput ==
    (Returned /\ ~ret) => traj_out = traj_out_pre

\* C3 witness: every planner asked failed, and the buffer held a point
C3_Witness ==
    /\ Returned /\ ~ret /\ outcome = "planning_failed"
    /\ Len(plan_calls) = 2
    /\ traj_out_pre # <<>>

\* C4 (the claim as stated): a call that succeeds on the planning branch
\* with a non-empty approach returns len(approach) - 1 + len(input) points
\* for an input of more than one point, and len(approach) points for an
\* input of exactly one point.
C4_MergeLength ==
    (Returned /\ ret /\ ~skip_planning /\ approach.points # <<>>)
    => Len(traj_out) = IF Len(traj_in) > 1
                       THEN Len(approach.points) - 1 + Len(traj_in)
                       ELSE Len(approach.points)

\* C5: when combineTrajectories is given an input of more than one point,
\* the trajectory it leaves ends with the input points, in their order and
\* with their positions, velocities and accelerations, each at its input
\* offset plus the offset of the last approach point.
C5_InputAppended ==
    (Returned /\ outcome = "merged" /\ Len(traj_in) > 1)
    => LET n == Len(combined)
           m == Len(traj_in)
           offset == approach.points[Len(approach.points)].time_from_start
       IN  /\ n >= m
           /\ \A k \in 1..m :
                 combined[n - m + k] =
                    [traj_in[k] EXCEPT !.time_from_start = traj_in[k].time_from_start + offset]

\* C5 witness: an approach of several points that ends at a non-zero offset
C5_Witness ==
    /\ Returned /\ outcome = "merged" /\ Len(traj_in) > 1
    /\ Len(approach.points) > 1
    /\ approach.points[Len(approach.points)].time_from_start > 0
    /\ traj_in[2].time_from_start > traj_in[1].time_from_start

\* C6: a call with an empty input trajectory succeeds with an empty output
\* trajectory and asks no planner, whatever skip_planning, the
\* planning-disabled flag and the sizes of joint_names and current_pos.
C6_EmptyInputIdentity ==
    (Returned /\ traj_in = <<>>)
    => (ret /\ traj_out = traj_in /\ plan_calls = <<>>)

\* C6 witness: planning asked for while disabled, sizes that disagree, and
\* a buffer that held a point
C6_Witness ==
    /\ Returned /\ traj_in = <<>> /\ ret
    /\ ~skip_planning /\ planning_disabled_
    /\ Len(joint_names) # Len(current_pos)
    /\ traj_out_pre # <<>>

\* C7 (the claim as stated): a request in which the sizes of joint_names,
\* of current_pos and of the positions of any input point disagree is
\* rejected, and no output point is produced whose positions differ in size
\* from joint_names (a caller whose buffer was empty).
C7_SizesEnforced ==
    /\ (Returned /\ traj_in # <<>>
          /\ (\/ Len(joint_names) # Len(current_pos)
              \/ \E k \in 1..Len(traj_in) :
                    Len(traj_in[k].positions) # Len(joint_names)))
       => ~ret
    /\ (Returned /\ ret /\ traj_out_pre = <<>>)
       => \A k \in 1..Len(traj_out) :
             Len(traj_out[k].positions) = Len(joint_names)

\* every joint that is not excluded from planning is within joint_tol_ of
\* the first waypoint
AllPlanningJointsAtGoal ==
    \A i \in 1..Len(joint_names) :
        Find(no_plan_joints_, joint_names[i]) = 0
        => ~RGt(RAbs(RSub(current_pos[i], traj_in[1].positions[i])), joint_tol_)

\* a call on the planning branch that needs no approach
NoOpApproachCall ==
    /\ Returned /\ traj_in # <<>> /\ ~skip_planning /\ ~planning_disabled_
    /\ SizesAgree
    /\ AllPlanningJointsAtGoal

\* the largest |goal - current| over all joints, divided by the velocity,
\* and at least the minimum duration: the reach time of the first waypoint
FirstReachTime ==
    LET Dist(i) == RAbs(RSub(traj_in[1].positions[i], current_pos[i]))
        far == CHOOSE i \in 1..Len(current_pos) :
                  \A j \in 1..Len(current_pos) : ~RGt(Dist(j), Dist(i))
    IN  RMax(RDiv(Dist(far), skip_planning_vel_), skip_planning_min_dur_)

\* C10 (the claim as stated): on the planning branch, when no joint that may
\* be planned has to move, no planner is asked and the output is the input
\* with every offset increased by one and the same amount (possibly zero).
C10_UniformShift ==
    NoOpApproachCall
    => /\ ret /\ plan_calls = <<>>
       /\ \E shift \in 0..(4 * MaxPos + 3) : traj_out = AddDuration(traj_in, shift)

\* C10 (amended): ... the output has the points of the input and differs
\* from it in the offsets only: when the first offset is zero and the reach
\* time exceeds eps_time every offset is increased by the reach time; when
\* the first offset is zero and the reach time does not exceed eps_time the
\* first offset alone becomes eps_time; otherwise nothing changes.
C10_NoOpApproach ==
    NoOpApproachCall
    => /\ ret /\ plan_calls = <<>>
       /\ traj_out =
            IF traj_in[1].time_from_start # 0 THEN traj_in
            ELSE IF RGt(FirstReachTime, R(EpsTime))
            THEN AddDuration(traj_in, FromSeconds(FirstReachTime))
            ELSE [traj_in EXCEPT ![1].time_from_start = EpsTime]

\* C10 witness: a first point at offset zero that needs no motion at all,
\* followed by a point more than eps_time later: the first offset alone
\* has moved
C10_Witness ==
    /\ NoOpApproachCall /\ ret /\ plan_calls = <<>>
    /\ Len(traj_in) > 1
    /\ traj_in[1].time_from_start = 0
    /\ traj_in[2].time_from_start > EpsTime
    /\ traj_out[1].time_from_start = EpsTime
    /\ traj_out[2].time_from_start = traj_in[2].time_from_start

---------------------------------------------------------------------------
(* Properties of getValidMoveGroups, checked under SpecGroups *)

SetOf(q) == {q[i] : i \in 1..Len(q)}

Qualifies(data, min_set, max_set) ==
    /\ min_set \subseteq SetOf(data.move_group.active_joints)
    /\ SetOf(data.move_group.active_joints) \subseteq max_set

\* the registered groups between min_set and max_set, in registry order
RECURSIVE GroupsBetween(_, _, _, _)
GroupsBetween(registry, k, min_set, max_set) ==
    IF k > Len(registry) THEN <<>>
    ELSE (IF Qualifies(registry[k], min_set, max_set)
          THEN <<registry[k].move_group>> ELSE <<>>)
         \o GroupsBetween(registry, k + 1, min_set, max_set)

NamesOf(groups) == [k \in 1..Len(groups) |-> groups[k].name]

\* C8: for min_group and max_group given as sequences of distinct names in
\* any order, getValidMoveGroups returns exactly the registered groups whose
\* set of joints contains the set of min_group and is contained in the set
\* of max_group, in registry order.
C8_ValidMoveGroups ==
    pc = "groups"
    => valid_groups =
          GroupsBetween(planning_data_, 1, SetOf(min_group), SetOf(max_group))

\* C8 witness: min {j2} and max {j1,j2,j3} given out of name order, on a
\* registry whose groups list their joints out of name order: {j1,j2},
\* {j2,j3} and {j1,j2,j3} are returned and {j1,j3} is not
C8_Witness ==
    /\ pc = "groups"
    /\ min_group = <<"j2">>
    /\ max_group = <<"j3", "j1", "j2">>
    /\ planning_data_[1].move_group.active_joints = <<"j2", "j1">>
    /\ NamesOf(valid_groups) = <<"a", "b", "c">>

---------------------------------------------------------------------------
(* Properties of computeApproach, checked under SpecApproach *)

\* what planApproach makes of the answer of the planner of a group: every
\* target accepted, plan() successful, a trajectory with points
CandidateSucceeds(name) ==
    /\ SetOf(max_group) \cap planner[name].rejected = {}
    /\ planner[name].success
    /\ planner[name].trajectory.points # <<>>

\* the position of the first candidate that succeeds, 0 if there is none
FirstSuccess ==
    IF \E k \in 1..Len(valid_groups) : CandidateSucceeds(valid_groups[k].name)
    THEN CHOOSE k \in 1..Len(valid_groups) :
            /\ CandidateSucceeds(valid_groups[k].name)
            /\ \A j \in 1..(k - 1) : ~CandidateSucceeds(valid_groups[j].name)
    ELSE 0

\* C9: computeApproach hands the candidate groups to the planner in
\* registry order, each at most once, up to and including the first one
\* that succeeds; the approach it returns is the trajectory of that
\* candidate, and when none succeeds every candidate has been asked once.
C9_FirstSuccessScan ==
    (pc = "approach" /\ min_group # <<>>)
    => LET called == [k \in 1..Len(plan_calls) |-> plan_calls[k].group]
           cands == NamesOf(valid_groups)
       IN  IF FirstSuccess = 0
           THEN ~ret /\ called = cands
           ELSE /\ ret
                /\ called = SubSeq(cands, 1, FirstSuccess)
                /\ approach = planner[cands[FirstSuccess]].trajectory

\* C9 witness: three candidates, the first fails, the second succeeds and
\* is returned, the third would have succeeded too and is not asked
C9_Witness ==
    /\ pc = "approach" /\ ret
    /\ Len(valid_groups) = 3
    /\ Len(plan_calls) = 2
    /\ ~CandidateSucceeds(valid_groups[1].name)
    /\ CandidateSucceeds(valid_groups[3].name)
    /\ approach = planner[valid_groups[2].name].trajectory
    /\ approach # planner[valid_groups[3].name].trajectory

---------------------------------------------------------------------------
(* More properties of prependApproach, checked under Spec *)

\* a call on the skip_planning branch: a non-empty input whose first point
\* agrees in size with joint_names and current_pos
SkipPlanningCall ==
    /\ Returned /\ skip_planning /\ traj_in # <<>>
    /\ SizesAgree

\* C11 (the claim as stated): on the skip_planning branch, when the first
\* input offset is zero every output offset is the input offset plus
\* reach_time = max(max_i |goal_i - current_i| / skip_vel, skip_min_dur);
\* when the first input offset is not zero the output is the input.
C11_SkipTiming ==
    SkipPlanningCall
    => /\ ret
       /\ traj_out = IF traj_in[1].time_from_start = 0
                     THEN AddDuration(traj_in, FromSeconds(FirstReachTime))
                     ELSE traj_in

\* C11 (amended): ... when the first input offset is zero and reach_time is
\* greater than zero, every output offset is the input offset plus
\* reach_time, added once; when the first input offset is zero and
\* reach_time is zero, the first output offset alone becomes eps_time; when
\* the first input offset is not zero the output is the input.
C11_SkipTimingOrEps ==
    SkipPlanningCall
    => /\ ret
       /\ traj_out =
            IF traj_in[1].time_from_start # 0 THEN traj_in
            ELSE IF FromSeconds(FirstReachTime) > 0
            THEN AddDuration(traj_in, FromSeconds(FirstReachTime))
            ELSE [traj_in EXCEPT ![1].time_from_start = EpsTime]

\* C11 witness: current [0, 0], goal [1, 2], skip_vel 0.5 and skip_min_dur
\* 0, in the units of the model: the largest displacement, 2, divided by
\* 0.5 gives the shift of 4 (8 ticks), added to both points
C11_Witness ==
    /\ SkipPlanningCall /\ ret
    /\ current_pos = <<R(0), R(0)>>
    /\ traj_in[1].positions = <<R(1), R(2)>>
    /\ skip_planning_vel_ = SkipPlanningVelDefault
    /\ skip_planning_min_dur_ = SkipPlanningMinDurDefault
    /\ Len(traj_in) = 2
    /\ traj_in[1].time_from_start = 0
    /\ traj_out = AddDuration(traj_in, 8)


\* C12: a non-empty request whose sizes agree is rejected at the
\* planning-disabled test exactly when skip_planning is false and planning
\* is disabled, and then no planner has been asked; with skip_planning true
\* the call succeeds on the skip_planning branch and asks no planner,
\* whether planning is disabled or not.
C12_PlanningDisabled ==
    (Returned /\ traj_in # <<>> /\ SizesAgree)
    => /\ (outcome = "planning_disabled") <=> (~skip_planning /\ planning_disabled_)
       /\ (~skip_planning /\ planning_disabled_)
          => (~ret /\ plan_calls = <<>> /\ approach = EmptyTrajectory)
       /\ skip_planning
          => (ret /\ outcome = "skip_planning" /\ plan_calls = <<>>)

\* C12 witness: a well-sized request for a plan that would need an approach,
\* made while planning is disabled
C12_Witness ==
    /\ Returned /\ traj_in # <<>> /\ SizesAgree
    /\ ~skip_planning /\ planning_disabled_
    /\ ~AllPlanningJointsAtGoal
    /\ ~ret /\ outcome = "planning_disabled"

---------------------------------------------------------------------------
(* Properties of combineTrajectories, checked under SpecCombine *)

\* the approach points whose merged points are in the trajectory when
\* combineTrajectories returns: all of them for an input of one point, all
\* but the last one otherwise
KeptPoints ==
    1..(IF Len(traj_in) = 1 THEN Len(approach.points) ELSE Len(approach.points) - 1)

\* the merged point made from the k-th approach point, which follows what
\* the buffer held on entry
Merged(k) == traj_out[Len(traj_out_pre) + k]

PlanIndex(i) == Find(approach.joint_names, joint_names[i])

\* the final time offset of the approach
FinalTime == approach.points[Len(approach.points)].time_from_start

\* the straight line from current_pos[i] at 0 to the first input position
\* at FinalTime, read at time t
OnLine(i, t) ==
    IF t = FinalTime THEN traj_in[1].positions[i]
    ELSE IF t = 0 THEN current_pos[i]
    ELSE RAdd(current_pos[i],
              RDiv(RMul(RSub(traj_in[1].positions[i], current_pos[i]), R(t)),
                   R(FinalTime)))

\* C13 (the claim as stated): for every joint of joint_names that is not in
\* the joints of the approach and every approach point at time t, the
\* merged position is current + (target - current) * t / T, so current at
\* t = 0 and exactly target at t = T; the velocity, when present, is
\* (target - current) / T and the acceleration, when present, is 0; for every
\* approach, one whose final time offset T is zero included.
C13_Interpolation ==
    pc = "combined"
    => \A k \in KeptPoints : \A i \in 1..Len(joint_names) :
          PlanIndex(i) = 0
          => /\ Merged(k).positions[i] = OnLine(i, approach.points[k].time_from_start)
             /\ Merged(k).velocities # <<>>
                => Merged(k).velocities[i] =
                      RDiv(RSub(traj_in[1].positions[i], current_pos[i]), R(FinalTime))
             /\ Merged(k).accelerations # <<>>
                => Merged(k).accelerations[i] = R(0)

\* C16: every merged approach point has one position per joint of
\* joint_names and the time offset of its approach point; it has one
\* velocity (acceleration) per joint of joint_names if the approach point
\* has velocities (accelerations) and none otherwise; and for every joint
\* that the approach names it carries the position, velocity and
\* acceleration the approach point gives for that name, whatever the order
\* and the subset of joints of the approach.
C16_MergedPointStructure ==
    pc = "combined"
    => \A k \in KeptPoints :
          LET point_appr == approach.points[k]
              Size(has) == IF has THEN Len(joint_names) ELSE 0
          IN  /\ Len(Merged(k).positions) = Len(joint_names)
              /\ Merged(k).time_from_start = point_appr.time_from_start
              /\ Len(Merged(k).velocities) = Size(point_appr.velocities # <<>>)
              /\ Len(Merged(k).accelerations) = Size(point_appr.accelerations # <<>>)
              /\ \A i \in 1..Len(joint_names) : \A a \in 1..Len(approach.joint_names) :
                    approach.joint_names[a] = joint_names[i]
                    => /\ Merged(k).positions[i] = point_appr.positions[a]
                       /\ point_appr.velocities # <<>>
                          => Merged(k).velocities[i] = point_appr.velocities[a]
                       /\ point_appr.accelerations # <<>>
                          => Merged(k).accelerations[i] = point_appr.accelerations[a]

\* C16 witness: an approach that names both joints in the order opposite to
\* joint_names, with velocities and without accelerations, merged behind a
\* point the buffer already held
C16_Witness ==
    /\ pc = "combined"
    /\ joint_names = <<"j2", "j1">>
    /\ approach.joint_names = <<"j1", "j2">>
    /\ Len(approach.points) = 2 /\ Len(traj_in) = 1
    /\ traj_out_pre # <<>>
    /\ approach.points[2].velocities # <<>>
    /\ approach.points[2].accelerations = <<>>
    /\ Merged(2).positions = <<approach.points[2].positions[2],
                               approach.points[2].positions[1]>>
    /\ Merged(2).velocities = <<approach.points[2].velocities[2],
                                approach.points[2].velocities[1]>>
    /\ Merged(2).accelerations = <<>>

---------------------------------------------------------------------------
(* More properties of computeApproach, checked under SpecApproach *)

\* the active joints of the registered group of that name
GroupJoints(name) ==
    LET k == CHOOSE k \in 1..Len(planning_data_) :
                planning_data_[k].move_group.name = name
    IN  SetOf(planning_data_[k].move_group.active_joints)

\* C14 (the claim as stated): when planApproach is called for a candidate
\* group G, a goal target is set on G only for joints G controls, never for
\* a joint of max_group outside G, and when the planner is run the targets
\* set are exactly the joints of G.
C14_GoalTargets ==
    pc = "approach"
    => \A k \in 1..Len(plan_calls) :
          /\ SetOf(plan_calls[k].targets) \subseteq GroupJoints(plan_calls[k].group)
          /\ plan_calls[k].planned
             => SetOf(plan_calls[k].targets) = GroupJoints(plan_calls[k].group)

\* the attempt on a candidate is a soft failure: plan() was called and it
\* either did not succeed or succeeded with a trajectory of no point
SoftFailure(k) ==
    /\ plan_calls[k].planned
    /\ \/ ~planner[plan_calls[k].group].success
       \/ planner[plan_calls[k].group].trajectory.points = <<>>

\* a goal target was not accepted, and plan() was not called
TargetRejected(k) == ~plan_calls[k].planned

AllCandidatesCalled ==
    [k \in 1..Len(plan_calls) |-> plan_calls[k].group] = NamesOf(valid_groups)

\* C15 (the claim as stated): computeApproach with a non-empty min_group
\* fails if and only if no registered group qualifies (and then no planner
\* is asked) or the attempt on every qualifying group is a soft failure; in
\* every other case it succeeds with a non-empty approach, and on failure
\* the approach handed back is empty.
C15_FailureIffSoft ==
    (pc = "approach" /\ min_group # <<>>)
    => /\ ~ret <=> \/ valid_groups = <<>>
                   \/ /\ AllCandidatesCalled
                      /\ \A k \in 1..Len(plan_calls) : SoftFailure(k)
       /\ valid_groups = <<>> => plan_calls = <<>>
       /\ ret => approach.points # <<>>
       /\ ~ret => approach = EmptyTrajectory

\* C15 (amended): ... or the attempt on every qualifying group fails, by a
\* goal target that the group does not accept (plan() is then not called)
\* or by a soft failure; ...
C15_FailureIff ==
    (pc = "approach" /\ min_group # <<>>)
    => /\ ~ret <=> \/ valid_groups = <<>>
                   \/ /\ AllCandidatesCalled
                      /\ \A k \in 1..Len(plan_calls) :
                            TargetRejected(k) \/ SoftFailure(k)
       /\ valid_groups = <<>> => plan_calls = <<>>
       /\ ret => approach.points # <<>>
       /\ ~ret => approach = EmptyTrajectory

\* C15 witness: three candidates, one fails on a goal target, one on the
\* status of plan() and one on a trajectory of no point
C15_Witness ==
    /\ pc = "approach" /\ ~ret
    /\ Len(valid_groups) = 3 /\ AllCandidatesCalled
    /\ TargetRejected(1)
    /\ SoftFailure(2) /\ ~planner[plan_calls[2].group].success
    /\ SoftFailure(3) /\ planner[plan_calls[3].group].success
    /\ approach = EmptyTrajectory

---------------------------------------------------------------------------
(* The caller's buffer, checked under Spec *)

\* what the call that has returned would have left in a buffer that held
\* other points on entry
OutputFrom(other) ==
    prependApproach(joint_names, current_pos, skip_planning, traj_in, other,
                    planner).traj_out

\* C17 (the claim as stated): on success the output trajectory depends on
\* joint_names, current_pos, skip_planning, the input trajectory and the
\* answer of the planner only: the same call made with any other prior
\* contents of traj_out leaves the same trajectory, on every path.
C17_BufferIndependence ==
    (Returned /\ ret) => \A other \in PriorBuffers : traj_out = OutputFrom(other)

=============================================================================
